---- MODULE Spec2Model ----
(***************************************************************************)
(* Model of the gibberish detector: text sanitisation, bigram training,    *)
(* scoring, model validation and the configurable detector facade.         *)
(*                                                                         *)
(* The repository holds two revisions of the module: src/index.js and      *)
(* src/unnamed/part_001.  The variable impl says which of them is loaded;  *)
(* code that is the same in both is modelled once, code that differs is    *)
(* modelled once per file (suffix _index / _part001).                      *)
(*                                                                         *)
(* Text is a sequence of one-character strings.  JavaScript numbers are    *)
(* fractions [n, d] with d >= 0: d = 0 stands for NaN (n = 0), +Infinity   *)
(* (n > 0) and -Infinity (n < 0).  Arithmetic on them is exact; the counts *)
(* and baselines of the model are small integers and halves, which the     *)
(* doubles of the code represent exactly as well.                          *)
(*                                                                         *)
(* The loops of the code are recursive operators.  Each binds the values   *)
(* it carries to the next iteration with "x \in {e}", so that an iteration *)
(* evaluates them once.                                                    *)
(***************************************************************************)
EXTENDS Integers, Sequences, FiniteSets, TLC

VARIABLES impl, config, call, result, pre, caches

vars == <<impl, config, call, result, pre, caches>>

(***************************************************************************)
(* Bounds                                                                  *)
(***************************************************************************)
MaxSanLen == 3
MaxTextLen == 3
MaxCorpusLen == 4

(***************************************************************************)
(* Sequence helpers                                                        *)
(***************************************************************************)
RECURSIVE SeqsUpTo(_, _)
SeqsUpTo(S, n) ==
    IF n = 0 THEN {<<>>}
    ELSE LET shorter == SeqsUpTo(S, n - 1)
         IN  shorter \cup {Append(s, c) : s \in {q \in shorter : Len(q) = n - 1}, c \in S}

(***************************************************************************)
(* Characters are one-character strings.  EAcute is a precomposed accented *)
(* letter (U+00E9), CombiningAcute the combining mark U+0301 that NFD      *)
(* splits off it, NonLatin a letter outside ASCII with no decomposition.   *)
(***************************************************************************)
EAcute == "e_acute"
CombiningAcute == "combining_acute"
NonLatin == "non_latin"

\* String.prototype.split(sep).join(" ") for the two-character separator "\r\n"
RECURSIVE replaceCRLF(_)
replaceCRLF(s) ==
    IF Len(s) = 0 THEN <<>>
    ELSE IF Len(s) >= 2 /\ s[1] = "\r" /\ s[2] = "\n"
         THEN <<" ">> \o replaceCRLF(SubSeq(s, 3, Len(s)))
         ELSE <<s[1]>> \o replaceCRLF(Tail(s))

\* split(c).join(" ") for a one-character separator c
replaceChar(s, c) == [i \in 1..Len(s) |-> IF s[i] = c THEN " " ELSE s[i]]

\* replace(/[!?.]/g, ' ')
Terminators == {"!", "?", "."}
replaceTerminators(s) == [i \in 1..Len(s) |-> IF s[i] \in Terminators THEN " " ELSE s[i]]

\* replace(/  +/g, ' '): every maximal run of two or more spaces becomes one space
RECURSIVE collapseSpaces(_)
collapseSpaces(s) ==
    IF Len(s) = 0 THEN <<>>
    ELSE IF s[1] = " " /\ Len(s) >= 2 /\ s[2] = " "
         THEN collapseSpaces(Tail(s))
         ELSE <<s[1]>> \o collapseSpaces(Tail(s))

\* String.prototype.normalize('NFD') on the characters of the model
RECURSIVE normalizeNFD(_)
normalizeNFD(s) ==
    IF Len(s) = 0 THEN <<>>
    ELSE (IF s[1] = EAcute THEN <<"e", CombiningAcute>> ELSE <<s[1]>>) \o normalizeNFD(Tail(s))

IsCombiningMark(c) == c = CombiningAcute
IsNonAscii(c) == c \in {EAcute, CombiningAcute, NonLatin}

NotCombining(c) == ~IsCombiningMark(c)
IsAscii(c) == ~IsNonAscii(c)

convertToLatinEquivalent(inputString) ==
    LET normalizedString == SelectSeq(normalizeNFD(inputString), NotCombining)
    IN  SelectSeq(normalizedString, IsAscii)

\* the characters of /[0-9!"#$%&'()*+,-./:;<=>?@[\]^_`{|}~]/ that the model uses
NoiseChars == {"1", "!", "?", ".", ",", "-"}
NotNoise(c) == c \notin NoiseChars

\* the part of sanitizeText the two files share (index.js 5-25, part_001 20-40)
sanitizeBody(sample) ==
    LET s1 == replaceCRLF(sample)
        s2 == replaceChar(s1, "\n")
        s3 == replaceChar(s2, "\t")
        s4 == replaceTerminators(s3)
        s5 == collapseSpaces(s4)
        s6 == convertToLatinEquivalent(s5)
    IN  SelectSeq(s6, NotNoise)

(***************************************************************************)
(* JavaScript numbers                                                      *)
(***************************************************************************)
Num(n, d) == [n |-> n, d |-> d]
NaN == Num(0, 0)
IsNaN(a) == a.d = 0 /\ a.n = 0
IsFinite(a) == a.d > 0

Sign(k) == IF k > 0 THEN 1 ELSE IF k < 0 THEN -1 ELSE 0

\* a + b
NumAdd(a, b) ==
    IF IsNaN(a) \/ IsNaN(b) THEN NaN
    ELSE IF a.d = 0 /\ b.d = 0 THEN (IF Sign(a.n) = Sign(b.n) THEN Num(Sign(a.n), 0) ELSE NaN)
    ELSE IF a.d = 0 THEN Num(Sign(a.n), 0)
    ELSE IF b.d = 0 THEN Num(Sign(b.n), 0)
    ELSE Num(a.n * b.d + b.n * a.d, a.d * b.d)

\* a / k for an integer k >= 0 (0 / 0 is NaN, x / 0 is +-Infinity)
NumDivInt(a, k) ==
    IF IsNaN(a) THEN NaN
    ELSE IF a.d = 0 THEN (IF k = 0 THEN Num(Sign(a.n), 0) ELSE a)
    ELSE IF k = 0 THEN Num(Sign(a.n), 0)
    ELSE Num(a.n, a.d * k)

\* a <= b; false whenever either side is NaN
NumLeq(a, b) ==
    IF IsNaN(a) \/ IsNaN(b) THEN FALSE
    ELSE IF a.d = 0 /\ b.d = 0 THEN Sign(a.n) <= Sign(b.n)
    ELSE IF a.d = 0 THEN a.n < 0
    ELSE IF b.d = 0 THEN b.n > 0
    ELSE a.n * b.d <= b.n * a.d

\* the same number (NaN taken as the same as NaN)
NumSame(a, b) ==
    IF IsNaN(a) \/ IsNaN(b) THEN IsNaN(a) /\ IsNaN(b)
    ELSE IF a.d = 0 \/ b.d = 0 THEN a.d = 0 /\ b.d = 0 /\ Sign(a.n) = Sign(b.n)
    ELSE a.n * b.d = b.n * a.d

\* truthiness of a number: 0 and NaN are falsy
NumTruthy(a) == a.n # 0

(***************************************************************************)
(* Outcome of a call: a return value or a thrown error                     *)
(***************************************************************************)
NoText == <<>>

Returned(o) == o.kind = "return"
Threw(o) == o.kind = "throw"

(***************************************************************************)
(* Text arguments: a string, or another JavaScript value given as text     *)
(***************************************************************************)
StrVal(s) == [t |-> "string", b |-> Len(s) > 0, s |-> s]
OtherVal(t, b) == [t |-> t, b |-> b, s |-> NoText]

NonStringTexts ==
    {OtherVal("boolean", FALSE), OtherVal("boolean", TRUE), OtherVal("null", FALSE),
     OtherVal("undefined", FALSE), OtherVal("array", TRUE), OtherVal("object", TRUE),
     OtherVal("function", TRUE)}

SanOut(kind, err, s) == [kind |-> kind, err |-> err, s |-> s]

\* src/index.js: no guard, the first statement calls sample.split
sanitizeText_index(sample) ==
    IF sample.t # "string"
    THEN SanOut("throw", "TypeError", NoText)
    ELSE SanOut("return", "", sanitizeBody(sample.s))

\* src/unnamed/part_001: falsy becomes '', any other non-string is rejected
sanitizeText_part001(sample) ==
    LET coerced == IF sample.b THEN sample ELSE StrVal(<<>>)
    IN  IF coerced.t # "string"
        THEN SanOut("throw", "Input sample must be a string", NoText)
        ELSE SanOut("return", "", sanitizeBody(coerced.s))

sanitizeText(file, sample) ==
    IF file = "index" THEN sanitizeText_index(sample) ELSE sanitizeText_part001(sample)

\* String.prototype.toLowerCase on the letters of the model
toLowerCase(s) ==
    [i \in 1..Len(s) |-> IF s[i] = "A" THEN "a" ELSE IF s[i] = "B" THEN "b" ELSE s[i]]

(***************************************************************************)
(* JavaScript values that stand for matrices, models and option values     *)
(*   t : kind ("object", "array", "null", "undefined", "boolean", ...)     *)
(*   b : truthiness                                                       *)
(***************************************************************************)
TypeOf(t) == IF t \in {"object", "array", "null"} THEN "object" ELSE t
IsArray(t) == t = "array"

\* an entry of a matrix list: m.x is x (typeof xt), m.y is y (typeof yt)
Entry(x, y) == [t |-> "object", xt |-> "string", x |-> x, yt |-> "number", y |-> Num(y, 1)]
EntryOf(t, xt, x, yt, y) == [t |-> t, xt |-> xt, x |-> x, yt |-> yt, y |-> y]

MatrixVal(t, b, e) == [t |-> t, b |-> b, e |-> e]
Matrix(e) == MatrixVal("array", TRUE, e)
UndefinedMatrix == MatrixVal("undefined", FALSE, <<>>)

\* {min, max, avg} with the typeof of each field
StatsVal(t, b, ft, min, max, avg) ==
    [t |-> t, b |-> b, mint |-> ft, min |-> min, maxt |-> ft, max |-> max, avgt |-> ft, avg |-> avg]
Stats(min, max, avg) == StatsVal("object", TRUE, "number", min, max, avg)
UndefinedStats == StatsVal("undefined", FALSE, "undefined", NaN, NaN, NaN)

BaselineVal(t, b, good, bad) == [t |-> t, b |-> b, good |-> good, bad |-> bad]
Baseline(good, bad) == BaselineVal("object", TRUE, good, bad)
UndefinedBaseline == BaselineVal("undefined", FALSE, UndefinedStats, UndefinedStats)

\* any value: f names the function when t = "function", e holds the elements
\* when t = "array", matrix and baseline are the properties of those names
JSVal(t, b, f, e, matrix, baseline) ==
    [t |-> t, b |-> b, f |-> f, e |-> e, matrix |-> matrix, baseline |-> baseline]
Plain(t, b) == JSVal(t, b, "", <<>>, UndefinedMatrix, UndefinedBaseline)
Undefined == Plain("undefined", FALSE)
Null == Plain("null", FALSE)
Bool(b) == Plain("boolean", b)
Fn(f) == JSVal("function", TRUE, f, <<>>, UndefinedMatrix, UndefinedBaseline)
ArrayVal(e) == JSVal("array", TRUE, "", e, UndefinedMatrix, UndefinedBaseline)
ModelVal(matrix, baseline) == JSVal("object", TRUE, "", <<>>, matrix, baseline)
AsMatrix(v) == MatrixVal(v.t, v.b, v.e)

(***************************************************************************)
(* Validators                                                              *)
(***************************************************************************)
\* a variant of checkEntry without the typeof check of m.y
checkEntry_noCountCheck(m) ==
    IF TypeOf(m.t) # "object" \/ IsArray(m.t) THEN "bad"
    ELSE IF m.t = "null" THEN "TypeError"
    ELSE IF m.xt # "string" \/ Len(m.x) # 2 THEN "bad"
    ELSE "ok"

\* the callback of matrix.some: "bad" sets errorState, "TypeError" is the
\* property read m.x on null
checkEntry(m) ==
    IF TypeOf(m.t) # "object" \/ IsArray(m.t) THEN "bad"
    ELSE IF m.t = "null" THEN "TypeError"
    ELSE IF m.xt # "string" \/ Len(m.x) # 2 THEN "bad"
    ELSE IF m.yt # "number" THEN "bad"
    ELSE "ok"

RECURSIVE someEntry(_, _)
someEntry(e, i) ==
    IF i > Len(e) THEN "true"
    ELSE LET c == checkEntry(e[i])
         IN  IF c = "bad" THEN "false"
             ELSE IF c = "TypeError" THEN "TypeError"
             ELSE someEntry(e, i + 1)

\* "true", "false", or "TypeError" when the validator itself throws
isValidMatrix(matrix) ==
    IF ~matrix.b \/ ~IsArray(matrix.t) THEN "false"
    ELSE someEntry(matrix.e, 1)

statsOk(st) ==
    /\ st.b /\ TypeOf(st.t) = "object" /\ ~IsArray(st.t)
    /\ st.mint = "number" /\ st.maxt = "number" /\ st.avgt = "number"

isValidModel(model) ==
    IF ~model.b \/ TypeOf(model.t) # "object" \/ IsArray(model.t) THEN "false"
    ELSE LET vm == isValidMatrix(model.matrix)
         IN  IF vm # "true" THEN vm
             ELSE IF ~model.baseline.b \/ TypeOf(model.baseline.t) # "object" \/ IsArray(model.baseline.t)
                  THEN "false"
             ELSE IF ~statsOk(model.baseline.good) THEN "false"
             ELSE IF ~statsOk(model.baseline.bad) THEN "false"
             ELSE "true"

(***************************************************************************)
(* Scoring                                                                 *)
(***************************************************************************)
EmptyMap == [k \in {} |-> NaN]
MapSet(map, k, v) == [kk \in DOMAIN map \cup {k} |-> IF kk = k THEN v ELSE map[kk]]

\* jsonArray.forEach(item => map.set(item.x, item.y)): a later entry with the
\* same key replaces the earlier one
RECURSIVE mapFromEntries(_, _, _)
mapFromEntries(e, i, map) ==
    IF i > Len(e) THEN map
    ELSE CHOOSE r \in {mapFromEntries(e, i + 1, m) : m \in {MapSet(map, e[i].x, e[i].y)}} : TRUE

convertJSONMatrixIntoMap(jsonArray) == mapFromEntries(jsonArray, 1, EmptyMap)

\* matrix.find(m => m.x == letterPair): index of the first match, 0 when none
RECURSIVE findEntry(_, _, _)
findEntry(e, i, letterPair) ==
    IF i > Len(e) THEN 0
    ELSE IF e[i].x = letterPair THEN i
    ELSE findEntry(e, i + 1, letterPair)

ScoreOut(kind, err, num) == [kind |-> kind, err |-> err, num |-> num]
LoopOut(kind, pairCount, totalScore, cache) ==
    [kind |-> kind, pairCount |-> pairCount, totalScore |-> totalScore, modelCache |-> cache]

\* the for loop of src/unnamed/part_001; x counts from 1, modelCache is the
\* Map created at the start of the call
RECURSIVE scoreLoop_part001(_, _, _, _, _, _, _)
scoreLoop_part001(split, x, matrixMap, useCache, modelCache, pairCount, totalScore) ==
    IF x > Len(split) \/ x + 1 > Len(split)
    THEN LoopOut("return", pairCount, totalScore, modelCache)
    ELSE LET letterPair == <<split[x], split[x + 1]>>
             fromCache == useCache /\ letterPair \in DOMAIN modelCache
             fromMap == ~fromCache /\ letterPair \in DOMAIN matrixMap
             modelFind == IF fromCache THEN modelCache[letterPair]
                          ELSE IF fromMap THEN matrixMap[letterPair]
                          ELSE NaN
             newCache == IF fromMap /\ useCache
                         THEN MapSet(modelCache, letterPair, modelFind)
                         ELSE modelCache
             newTotal == IF (fromCache \/ fromMap) /\ NumTruthy(modelFind)
                         THEN NumAdd(totalScore, modelFind)
                         ELSE totalScore
         IN  CHOOSE r \in {scoreLoop_part001(split, x + 1, matrixMap, useCache, c, n, t) :
                               c \in {newCache}, n \in {pairCount + 1}, t \in {newTotal}} : TRUE

\* the for loop of src/index.js; modelCache is not declared anywhere in the
\* file, so in strict mode reading it raises ReferenceError
RECURSIVE scoreLoop_index(_, _, _, _, _, _)
scoreLoop_index(split, x, matrix, useCache, pairCount, totalScore) ==
    IF x > Len(split) \/ x + 1 > Len(split)
    THEN LoopOut("return", pairCount, totalScore, EmptyMap)
    ELSE IF useCache
    THEN LoopOut("ReferenceError", pairCount, totalScore, EmptyMap)
    ELSE LET letterPair == <<split[x], split[x + 1]>>
             modelFind == findEntry(matrix, 1, letterPair)
             newTotal == IF modelFind # 0
                         THEN NumAdd(totalScore, matrix[modelFind].y)
                         ELSE totalScore
         IN  CHOOSE r \in {scoreLoop_index(split, x + 1, matrix, useCache, n, t) :
                               n \in {pairCount + 1}, t \in {newTotal}} : TRUE

Zero == Num(0, 1)

\* the outcome of a scoring call and the Map named modelCache as the call
\* leaves it
CacheOut(out, cache) == [out |-> out, modelCache |-> cache]

\* a variant of newModelCache that hands the call the Map of the call before
newModelCache_shared(carried) == carried

\* const modelCache = new Map(): carried is the Map the call before left
newModelCache(carried) == EmptyMap

\* assignScore of src/unnamed/part_001, given the Map the call before left
scoreWithCache_part001(test, matrix, useCache, carried) ==
    LET sanitized == sanitizeText_part001(test)
    IN  IF Threw(sanitized) THEN CacheOut(ScoreOut("throw", sanitized.err, NaN), carried)
        ELSE LET split == toLowerCase(replaceChar(sanitized.s, "\n"))
                 matrixMap == convertJSONMatrixIntoMap(matrix)
             IN  CHOOSE out \in
                     {CacheOut(ScoreOut("return", "", NumDivInt(r.totalScore, r.pairCount)),
                               r.modelCache) :
                        r \in {scoreLoop_part001(sp, 1, mm, useCache, mc, 0, Zero) :
                                 sp \in {split}, mm \in {matrixMap},
                                 mc \in {newModelCache(carried)}}} : TRUE

assignScore_part001(test, matrix, useCache) ==
    scoreWithCache_part001(test, matrix, useCache, EmptyMap).out

assignScore_index(test, matrix, useCache) ==
    LET sanitized == sanitizeText_index(test)
    IN  IF Threw(sanitized) THEN ScoreOut("throw", sanitized.err, NaN)
        ELSE LET split == toLowerCase(replaceChar(sanitized.s, "\n"))
             IN  CHOOSE out \in
                     {IF r.kind = "ReferenceError"
                      THEN ScoreOut("throw", "ReferenceError", NaN)
                      ELSE ScoreOut("return", "", NumDivInt(r.totalScore, r.pairCount)) :
                        r \in {scoreLoop_index(sp, 1, mx, useCache, 0, Zero) :
                                 sp \in {split}, mx \in {matrix}}} : TRUE

\* src/index.js creates no cache: the call leaves what it found
scoreWithCache(file, test, matrix, useCache, carried) ==
    IF file = "index" THEN CacheOut(assignScore_index(test, matrix, useCache), carried)
    ELSE scoreWithCache_part001(test, matrix, useCache, carried)

\* matrix is the list of entries; useCache is the truthiness of the flag
assignScore(file, test, matrix, useCache) ==
    IF file = "index" THEN assignScore_index(test, matrix, useCache)
    ELSE assignScore_part001(test, matrix, useCache)

\* the default threshold function
calculateThreshold(model) ==
    NumDivInt(NumAdd(model.baseline.good.min, model.baseline.bad.max), 2)

\* thresholdFn(model) for the functions a caller may configure
CallerThreshold == [goodThresholdFn |-> Num(42, 1), one |-> Num(1, 1), minusOne |-> Num(-1, 1)]
ThresholdFnNames == {"calculateThreshold"} \cup DOMAIN CallerThreshold

applyThresholdFn(thresholdFn, model) ==
    IF thresholdFn.f = "calculateThreshold" THEN calculateThreshold(model)
    ELSE CallerThreshold[thresholdFn.f]

BoolOut(kind, err, b) == [kind |-> kind, err |-> err, b |-> b]

\* a variant of testGibberish that returns !(score > threshold)
testGibberish_notGreater(file, test, model, thresholdFnArg, useCache) ==
    LET thresholdFn == IF thresholdFnArg.b THEN thresholdFnArg ELSE Fn("calculateThreshold")
        score == assignScore(file, test, model.matrix.e, useCache)
        threshold == applyThresholdFn(thresholdFn, model)
    IN  IF Threw(score) THEN BoolOut("throw", score.err, FALSE)
        ELSE BoolOut("return", "",
                     ~(NumLeq(threshold, score.num) /\ ~NumSame(threshold, score.num)))

testGibberish(file, test, model, thresholdFnArg, useCache) ==
    LET thresholdFn == IF thresholdFnArg.b THEN thresholdFnArg ELSE Fn("calculateThreshold")
        score == assignScore(file, test, model.matrix.e, useCache)
    IN  IF Threw(score) THEN BoolOut("throw", score.err, FALSE)
        ELSE BoolOut("return", "", NumLeq(score.num, applyThresholdFn(thresholdFn, model)))

(***************************************************************************)
(* Training                                                                *)
(***************************************************************************)
\* index of the entry whose x is letterPair (the analysisCache lookup), 0 when none
RECURSIVE analysisFind(_, _, _)
analysisFind(analysis, i, letterPair) ==
    IF i > Len(analysis) THEN 0
    ELSE IF analysis[i].x = letterPair THEN i
    ELSE analysisFind(analysis, i + 1, letterPair)

\* a variant of trainLoop that does not increment the count of a pair seen before
RECURSIVE trainLoop_noIncrement(_, _, _)
trainLoop_noIncrement(split, x, analysis) ==
    IF x > Len(split) \/ x + 1 > Len(split) THEN analysis
    ELSE LET letterPair == <<split[x], split[x + 1]>>
             existingFind == analysisFind(analysis, 1, letterPair)
         IN  IF existingFind # 0
             THEN trainLoop_noIncrement(split, x + 1, analysis)
             ELSE CHOOSE r \in {trainLoop_noIncrement(split, x + 1, a) :
                                  a \in {Append(analysis, Entry(letterPair, 1))}} : TRUE

\* the for loop of train: analysis holds the entries in order of discovery
RECURSIVE trainLoop(_, _, _)
trainLoop(split, x, analysis) ==
    IF x > Len(split) \/ x + 1 > Len(split) THEN analysis
    ELSE LET letterPair == <<split[x], split[x + 1]>>
             existingFind == analysisFind(analysis, 1, letterPair)
             next == IF existingFind # 0
                     THEN [analysis EXCEPT ![existingFind].y = NumAdd(@, Num(1, 1))]
                     ELSE Append(analysis, Entry(letterPair, 1))
         IN  CHOOSE r \in {trainLoop(split, x + 1, a) : a \in {next}} : TRUE

\* analysis.sort((a,b) => b.y - a.y): stable, descending by count
RECURSIVE insertByCount(_, _)
insertByCount(sorted, m) ==
    IF Len(sorted) = 0 THEN <<m>>
    ELSE IF sorted[1].y.n >= m.y.n
    THEN CHOOSE r \in {<<sorted[1]>> \o insertByCount(rest, m) : rest \in {Tail(sorted)}} : TRUE
    ELSE <<m>> \o sorted

RECURSIVE sortByCount(_, _, _)
sortByCount(analysis, i, sorted) ==
    IF i > Len(analysis) THEN sorted
    ELSE CHOOSE r \in {sortByCount(analysis, i + 1, next) :
                         next \in {insertByCount(sorted, analysis[i])}} : TRUE

\* String.prototype.split("\n")
RECURSIVE splitLines(_, _, _)
splitLines(s, i, current) ==
    IF i > Len(s) THEN <<current>>
    ELSE IF s[i] = "\n" THEN <<current>> \o splitLines(s, i + 1, <<>>)
    ELSE CHOOSE r \in {splitLines(s, i + 1, c) : c \in {Append(current, s[i])}} : TRUE

Whitespace == {" ", "\n", "\t", "\r"}

\* String.prototype.trim
RECURSIVE trimStart(_)
trimStart(s) == IF Len(s) > 0 /\ s[1] \in Whitespace THEN trimStart(Tail(s)) ELSE s

RECURSIVE trimEnd(_)
trimEnd(s) ==
    IF Len(s) > 0 /\ s[Len(s)] \in Whitespace THEN trimEnd(SubSeq(s, 1, Len(s) - 1)) ELSE s

trim(s) == trimEnd(trimStart(s))

PosInfinity == Num(1, 0)
NegInfinity == Num(-1, 0)

\* Math.min(...scores), Math.max(...scores): NaN if any argument is NaN
RECURSIVE mathMin(_, _, _)
mathMin(scores, i, acc) ==
    IF i > Len(scores) THEN acc
    ELSE IF IsNaN(acc) \/ IsNaN(scores[i]) THEN mathMin(scores, i + 1, NaN)
    ELSE CHOOSE r \in {mathMin(scores, i + 1, a) :
                         a \in {IF NumLeq(scores[i], acc) THEN scores[i] ELSE acc}} : TRUE

RECURSIVE mathMax(_, _, _)
mathMax(scores, i, acc) ==
    IF i > Len(scores) THEN acc
    ELSE IF IsNaN(acc) \/ IsNaN(scores[i]) THEN mathMax(scores, i + 1, NaN)
    ELSE CHOOSE r \in {mathMax(scores, i + 1, a) :
                         a \in {IF NumLeq(acc, scores[i]) THEN scores[i] ELSE acc}} : TRUE

\* scores.reduce((a,b) => a + b, 0)
RECURSIVE sumScores(_, _, _)
sumScores(scores, i, acc) ==
    IF i > Len(scores) THEN acc
    ELSE CHOOSE r \in {sumScores(scores, i + 1, a) : a \in {NumAdd(acc, scores[i])}} : TRUE

StatsOut(kind, err, stats) == [kind |-> kind, err |-> err, stats |-> stats]

\* lines is a list of strings; model is the list of entries
\* the reduction of the scores of the lines, or the first error raised by one
reduceScores(outs) ==
    IF \E i \in 1..Len(outs) : Threw(outs[i])
    THEN StatsOut("throw", outs[CHOOSE i \in 1..Len(outs) :
                                  Threw(outs[i]) /\ \A j \in 1..(i - 1) : ~Threw(outs[j])].err,
                  UndefinedStats)
    ELSE CHOOSE out \in
             {StatsOut("return", "",
                       Stats(mathMin(scores, 1, PosInfinity), mathMax(scores, 1, NegInfinity),
                             NumDivInt(sumScores(scores, 1, Zero), Len(scores)))) :
                scores \in {[i \in 1..Len(outs) |-> outs[i].num]}} : TRUE

scoreLines(file, lines, model) ==
    CHOOSE out \in
        {reduceScores(outs) :
           outs \in {[i \in 1..Len(lines) |->
                        assignScore(file, StrVal(trim(lines[i])), model, TRUE)]}} : TRUE

\* a line-set argument: a list of strings (t = "array", e) or one string (s)
LinesArray(e) == [t |-> "array", e |-> e, s |-> NoText]
LinesString(s) == [t |-> "string", e |-> <<>>, s |-> s]

\* the conversion of a line-delimited string into a list
toLines(file, lines) ==
    IF IsArray(lines.t) THEN lines.e
    ELSE LET parts == splitLines(lines.s, 1, <<>>)
         IN  IF file = "index" THEN parts ELSE [i \in 1..Len(parts) |-> trim(parts[i])]

TrainOut(kind, err, m) == [kind |-> kind, err |-> err, m |-> m]

\* the second half of train: the two baselines over the sorted analysis
baselines(file, analysis, goodLines, badLines) ==
    \* result.baseline.good = scoreLines(goodLines, analysis), then .bad
    LET goodOut == {scoreLines(file, toLines(file, goodLines), analysis)}
    IN  CHOOSE out \in
            {IF Threw(good) THEN TrainOut("throw", good.err, Undefined)
             ELSE CHOOSE o \in
                      {IF Threw(bad) THEN TrainOut("throw", bad.err, Undefined)
                       ELSE TrainOut("return", "",
                                     ModelVal(Matrix(analysis), Baseline(good.stats, bad.stats))) :
                         bad \in {scoreLines(file, toLines(file, badLines), analysis)}} : TRUE :
               good \in goodOut} : TRUE

train(file, sample, goodLines, badLines) ==
    LET sanitized == sanitizeText(file, sample)
    IN  IF Threw(sanitized) THEN TrainOut("throw", sanitized.err, Undefined)
        ELSE CHOOSE out \in
                 {baselines(file, analysis, goodLines, badLines) :
                    analysis \in {sortByCount(found, 1, <<>>) :
                                   found \in {trainLoop(split, 1, <<>>) :
                                              split \in {toLowerCase(sanitized.s)}}}} : TRUE

(***************************************************************************)
(* Configuration and the detector object                                   *)
(***************************************************************************)
OptionNames == {"model", "thresholdFn", "useCache"}

\* the model shipped as data/model.json (a small stand-in: valid, and its
\* good minimum exceeds its bad maximum)
DefaultModel ==
    ModelVal(Matrix(<<Entry(<<"a", "b">>, 3), Entry(<<"b", "a">>, 1), Entry(<<"a", " ">>, 2)>>),
             Baseline(Stats(Num(2, 1), Num(3, 1), Num(5, 2)), Stats(Num(0, 1), Num(0, 1), Num(0, 1))))

Config(model, thresholdFn, useCache) ==
    [model |-> model, thresholdFn |-> thresholdFn, useCache |-> useCache]

defaultConfig == Config(DefaultModel, Fn("calculateThreshold"), Bool(TRUE))

Ok == [kind |-> "return", err |-> ""]
Err(e) == [kind |-> "throw", err |-> e]

\* a variant of testConfig without the check of useCache
testConfig_noUseCacheCheck(cfg) ==
    LET vm == isValidModel(cfg.model)
    IN  IF vm = "TypeError" THEN Err("TypeError")
        ELSE IF vm = "false" THEN Err("model provided is not a valid structure.")
        ELSE IF TypeOf(cfg.thresholdFn.t) # "function" THEN Err("thresholdFn must be a function")
        ELSE Ok

testConfig(cfg) ==
    LET vm == isValidModel(cfg.model)
    IN  IF vm = "TypeError" THEN Err("TypeError")
        ELSE IF vm = "false" THEN Err("model provided is not a valid structure.")
        ELSE IF TypeOf(cfg.thresholdFn.t) # "function" THEN Err("thresholdFn must be a function")
        ELSE IF TypeOf(cfg.useCache.t) # "boolean" THEN Err("useCache must be a boolean")
        ELSE Ok

\* the argument of the factory: a value of kind t that has the own
\* properties named in has
ConfigArg(t, b, has, model, thresholdFn, useCache) ==
    [t |-> t, b |-> b, has |-> has, model |-> model, thresholdFn |-> thresholdFn,
     useCache |-> useCache]

\* Object.assign(defaultConfig, config) / {...defaultConfig, ...config}
mergeConfig(arg) ==
    [name \in OptionNames |-> IF arg.b /\ name \in arg.has THEN arg[name] ELSE defaultConfig[name]]

FactoryOut(kind, err, cfg) == [kind |-> kind, err |-> err, cfg |-> cfg]

factory(arg) ==
    IF arg.b /\ TypeOf(arg.t) # "object" /\ ~IsArray(arg.t)
    THEN FactoryOut("throw", "config argument must be an object", defaultConfig)
    ELSE LET merged == mergeConfig(arg)
             tested == testConfig(merged)
         IN  IF Threw(tested) THEN FactoryOut("throw", tested.err, merged)
             ELSE FactoryOut("return", "", merged)

\* a variant of set that writes the option before it validates
set_assignFirst(cfg, name, value) ==
    LET written == [cfg EXCEPT ![name] = value]
        tested == testConfig(written)
    IN  IF Threw(tested) THEN FactoryOut("throw", tested.err, written)
        ELSE FactoryOut("return", "", written)

\* a variant of set that validates the clone but never writes the option
set_noAssign(cfg, name, value) ==
    LET cloneConfig == [cfg EXCEPT ![name] = value]
        tested == testConfig(cloneConfig)
    IN  IF Threw(tested) THEN FactoryOut("throw", tested.err, cfg)
        ELSE FactoryOut("return", "", cfg)

\* set(name, value): the outcome and the configuration after the call
set(cfg, name, value) ==
    LET cloneConfig == [cfg EXCEPT ![name] = value]
        tested == testConfig(cloneConfig)
    IN  IF Threw(tested) THEN FactoryOut("throw", tested.err, cfg)
        ELSE FactoryOut("return", "", [cfg EXCEPT ![name] = value])

get(cfg, name) == cfg[name]

\* a parameter declared "useCache = true": the default applies to undefined
useCacheParam(v) == IF v.t = "undefined" THEN TRUE ELSE v.b

\* a variant of detect that falls back to the configured model when the
\* override is not valid
detect_fallback(file, cfg, testString, overrideModel) ==
    LET useModel == IF overrideModel.b /\ isValidModel(overrideModel) = "true"
                    THEN overrideModel ELSE cfg.model
    IN  testGibberish(file, testString, useModel, cfg.thresholdFn, useCacheParam(cfg.useCache))

detect(file, cfg, testString, overrideModel) ==
    LET vm == IF overrideModel.b THEN isValidModel(overrideModel) ELSE "true"
    IN  IF vm = "TypeError" THEN BoolOut("throw", "TypeError", FALSE)
        ELSE IF vm = "false" THEN BoolOut("throw", "Malformed learning model provided", FALSE)
        ELSE LET useModel == IF overrideModel.b THEN overrideModel ELSE cfg.model
             IN  testGibberish(file, testString, useModel, cfg.thresholdFn,
                               useCacheParam(cfg.useCache))

\* the exported assignScore(testString, overrideMatrix)
assignScoreApi(file, cfg, testString, overrideMatrix) ==
    LET vx == IF overrideMatrix.b THEN isValidMatrix(AsMatrix(overrideMatrix)) ELSE "true"
        vm == IF vx = "false" THEN isValidModel(overrideMatrix) ELSE "true"
    IN  IF vx = "TypeError" \/ vm = "TypeError" THEN ScoreOut("throw", "TypeError", NaN)
        ELSE IF vm = "false" THEN ScoreOut("throw", "Malformed matrix provided", NaN)
        ELSE LET matrix == IF ~overrideMatrix.b THEN cfg.model.matrix.e
                           ELSE IF vx = "true" THEN overrideMatrix.e
                           ELSE overrideMatrix.matrix.e
             IN  assignScore(file, testString, matrix, useCacheParam(cfg.useCache))

(***************************************************************************)
(* Inputs                                                                  *)
(***************************************************************************)
Files == {"index", "part_001"}

TextChars == {"a", "b", "A", " ", "1"}
SanChars == {"a", "A", " ", "1", ".", ",", "\n", "\r", "\t", EAcute, NonLatin}
CorpusChars == {"a", "b", "A", "1"}

Texts == {StrVal(s) : s \in SeqsUpTo(TextChars, MaxTextLen)} \cup NonStringTexts
SanTexts == {StrVal(s) : s \in SeqsUpTo(SanChars, MaxSanLen)} \cup NonStringTexts
Corpora == {StrVal(s) : s \in SeqsUpTo(CorpusChars, MaxCorpusLen)} \cup NonStringTexts

\* a second valid model: negative counts and baselines, threshold -2
NegModel ==
    ModelVal(Matrix(<<Entry(<<"a", "a">>, 1), Entry(<<"a", "b">>, -2), Entry(<<"b", "b">>, 0),
                      Entry(<<"b", " ">>, -5)>>),
             Baseline(Stats(Num(-3, 1), Num(1, 1), Num(0, 1)), Stats(Num(-5, 1), Num(-1, 1), Num(-3, 1))))

\* {cowsGo: "moo"}
CowsGo == Plain("object", TRUE)
BadKeyModel ==
    ModelVal(Matrix(<<Entry(<<"a", "b">>, 3), Entry(<<"a", "b", "a">>, 1)>>), DefaultModel.baseline)
BadCountModel ==
    ModelVal(Matrix(<<EntryOf("object", "string", <<"a", "b">>, "string", NaN)>>),
             DefaultModel.baseline)
NullEntryModel ==
    ModelVal(Matrix(<<EntryOf("null", "undefined", <<>>, "undefined", NaN)>>), DefaultModel.baseline)
NoBaselineModel == ModelVal(DefaultModel.matrix, UndefinedBaseline)

ValidModels == {DefaultModel, NegModel}
InvalidModels ==
    {Null, Undefined, Bool(FALSE), Bool(TRUE), Plain("number", FALSE), Plain("string", FALSE),
     CowsGo, BadKeyModel, BadCountModel, NullEntryModel, NoBaselineModel, ArrayVal(<<>>)}
ModelArgs == ValidModels \cup InvalidModels

\* the candidates handed to isValidModel: the models above, models with counts
\* that are not positive integers, and structures wrong in one place only
Candidates ==
    ModelArgs \cup
    {\* a count of 1/2
     ModelVal(Matrix(<<EntryOf("object", "string", <<"a", "b">>, "number", Num(1, 2))>>), DefaultModel.baseline),
     \* a count of NaN
     ModelVal(Matrix(<<EntryOf("object", "string", <<"a", "b">>, "number", NaN)>>), DefaultModel.baseline),
     \* a count of 0
     ModelVal(Matrix(<<Entry(<<"a", "b">>, 0)>>), DefaultModel.baseline),
     \* a key that is a number
     ModelVal(Matrix(<<EntryOf("object", "number", <<>>, "number", Num(1, 1))>>), DefaultModel.baseline),
     \* an entry that is a list
     ModelVal(Matrix(<<EntryOf("array", "undefined", <<>>, "undefined", NaN)>>), DefaultModel.baseline),
     \* a string as second entry
     ModelVal(Matrix(<<Entry(<<"a", "b">>, 3), EntryOf("string", "undefined", <<>>, "undefined", NaN)>>), DefaultModel.baseline),
     \* null after an entry with a short key
     ModelVal(Matrix(<<Entry(<<"a">>, 3), EntryOf("null", "undefined", <<>>, "undefined", NaN)>>), DefaultModel.baseline),
     \* null after a well-formed entry
     ModelVal(Matrix(<<Entry(<<"a", "b">>, 3), EntryOf("null", "undefined", <<>>, "undefined", NaN)>>), DefaultModel.baseline),
     \* a string as matrix
     ModelVal(MatrixVal("string", TRUE, <<>>), DefaultModel.baseline),
     \* a list as baseline
     ModelVal(DefaultModel.matrix, BaselineVal("array", TRUE, DefaultModel.baseline.good, DefaultModel.baseline.bad)),
     \* baseline.good null
     ModelVal(DefaultModel.matrix, Baseline(StatsVal("null", FALSE, "undefined", NaN, NaN, NaN), DefaultModel.baseline.bad)),
     \* baseline.good.avg a string
     ModelVal(DefaultModel.matrix, Baseline([DefaultModel.baseline.good EXCEPT !.avgt = "string"], DefaultModel.baseline.bad)),
     \* baseline.bad.min missing
     ModelVal(DefaultModel.matrix, Baseline(DefaultModel.baseline.good, [DefaultModel.baseline.bad EXCEPT !.mint = "undefined"])),
     \* baseline.bad.max missing
     ModelVal(DefaultModel.matrix, Baseline(DefaultModel.baseline.good, [DefaultModel.baseline.bad EXCEPT !.maxt = "undefined"])),
     \* NaN and infinite baseline fields
     ModelVal(DefaultModel.matrix, Baseline(Stats(NaN, NaN, NaN), Stats(PosInfinity, NegInfinity, NaN)))}

\* what a caller may pass as overrideMatrix: a list, a model, or anything else
MatrixArgs ==
    {ArrayVal(m.matrix.e) : m \in {DefaultModel, NegModel, BadKeyModel, NullEntryModel}}
        \cup ModelArgs

ThresholdFnArgs == {Fn(f) : f \in ThresholdFnNames} \cup {Bool(TRUE), Undefined}
UseCacheArgs == {Bool(TRUE), Bool(FALSE), Plain("string", TRUE), Undefined}
OptionValues == ModelArgs \cup ThresholdFnArgs \cup UseCacheArgs

NoArg == ConfigArg("undefined", FALSE, {}, Undefined, Undefined, Undefined)
ConfigArgs ==
    {NoArg,
     ConfigArg("null", FALSE, {}, Undefined, Undefined, Undefined),
     ConfigArg("string", TRUE, {}, Undefined, Undefined, Undefined),
     ConfigArg("function", TRUE, {}, Undefined, Undefined, Undefined),
     ConfigArg("array", TRUE, {}, Undefined, Undefined, Undefined),
     ConfigArg("object", TRUE, {}, Undefined, Undefined, Undefined)}
    \cup {ConfigArg("object", TRUE, {"model"}, m, Undefined, Undefined) : m \in ModelArgs}
    \cup {ConfigArg("object", TRUE, {"thresholdFn"}, Undefined, f, Undefined) : f \in ThresholdFnArgs}
    \cup {ConfigArg("object", TRUE, {"useCache"}, Undefined, Undefined, u) : u \in UseCacheArgs}
    \cup {ConfigArg("object", TRUE, OptionNames, m, Fn("goodThresholdFn"), u) :
             m \in ValidModels \cup {CowsGo}, u \in {Bool(FALSE), Plain("string", TRUE)}}

NoLines == LinesArray(<<>>)

(***************************************************************************)
(* State: the loaded file, the detector's configuration, the last call,    *)
(* its outcome, and the configuration before the call                      *)
(***************************************************************************)
Call(op, name, text, val, arg, good, bad) ==
    [op |-> op, name |-> name, text |-> text, val |-> val, arg |-> arg, good |-> good, bad |-> bad]

\* b, num, s, val: the returned boolean, number, string or value;
\* self: the call returned the detector it was made on
Res(kind, err, b, num, s, val, self) ==
    [kind |-> kind, err |-> err, b |-> b, num |-> num, s |-> s, val |-> val, self |-> self]

\* the Map named modelCache as the scoring call before the last one left it
\* (before) and as the last scoring call left it (after)
Caches(before, after) == [before |-> before, after |-> after]
NoCaches == Caches(EmptyMap, EmptyMap)

NoCall == Call("none", "", StrVal(<<>>), Undefined, NoArg, NoLines, NoLines)
ResNone == Res("none", "", FALSE, NaN, NoText, Undefined, FALSE)
ResThrow(e) == Res("throw", e, FALSE, NaN, NoText, Undefined, FALSE)
ResBool(b) == Res("return", "", b, NaN, NoText, Undefined, FALSE)
ResNum(num) == Res("return", "", FALSE, num, NoText, Undefined, FALSE)
ResStr(s) == Res("return", "", FALSE, NaN, s, Undefined, FALSE)
ResVal(v) == Res("return", "", FALSE, NaN, NoText, v, FALSE)
ResSelf == Res("return", "", FALSE, NaN, NoText, Undefined, TRUE)

\* the state after require(...)(): a detector with the default configuration
Init ==
    /\ impl \in Files
    /\ config = defaultConfig
    /\ call = NoCall
    /\ result = ResNone
    /\ pre = defaultConfig
    /\ caches = NoCaches

\* the caller is between two calls
Idle == call.op = "none"

\* R(arg): a new detector replaces the one at hand when the factory returns
Factory ==
    /\ Idle
    /\ \E arg \in ConfigArgs :
        LET o == factory(arg)
        IN  /\ call' = [NoCall EXCEPT !.op = "factory", !.arg = arg]
            /\ pre' = config
            /\ config' = IF Returned(o) THEN o.cfg ELSE config
            /\ result' = IF Returned(o) THEN ResSelf ELSE ResThrow(o.err)
            /\ UNCHANGED <<impl, caches>>

Set ==
    /\ Idle
    /\ \E name \in OptionNames, value \in OptionValues :
        LET o == set(config, name, value)
        IN  /\ call' = [NoCall EXCEPT !.op = "set", !.name = name, !.val = value]
            /\ pre' = config
            /\ config' = o.cfg
            /\ result' = IF Returned(o) THEN ResSelf ELSE ResThrow(o.err)
            /\ UNCHANGED <<impl, caches>>

Get ==
    /\ Idle
    /\ \E name \in OptionNames :
        /\ call' = [NoCall EXCEPT !.op = "get", !.name = name]
        /\ pre' = config
        /\ result' = ResVal(get(config, name))
        /\ UNCHANGED <<impl, config, caches>>

Detect ==
    /\ Idle
    /\ \E testString \in Texts, overrideModel \in ModelArgs :
        LET o == detect(impl, config, testString, overrideModel)
        IN  /\ call' = [NoCall EXCEPT !.op = "detect", !.text = testString, !.val = overrideModel]
            /\ pre' = config
            /\ result' = IF Returned(o) THEN ResBool(o.b) ELSE ResThrow(o.err)
            /\ UNCHANGED <<impl, config, caches>>

AssignScore ==
    /\ Idle
    /\ \E testString \in Texts, overrideMatrix \in MatrixArgs :
        LET o == assignScoreApi(impl, config, testString, overrideMatrix)
        IN  /\ call' = [NoCall EXCEPT !.op = "assignScore", !.text = testString,
                                      !.val = overrideMatrix]
            /\ pre' = config
            /\ result' = IF Returned(o) THEN ResNum(o.num) ELSE ResThrow(o.err)
            /\ UNCHANGED <<impl, config, caches>>

IsValidModel ==
    /\ Idle
    /\ \E model \in Candidates :
        LET v == isValidModel(model)
        IN  /\ call' = [NoCall EXCEPT !.op = "isValidModel", !.val = model]
            /\ pre' = config
            /\ result' = IF v = "TypeError" THEN ResThrow("TypeError") ELSE ResBool(v = "true")
            /\ UNCHANGED <<impl, config, caches>>

\* the call has returned or thrown; the caller goes on to its next statement
Continue ==
    /\ ~Idle
    /\ call' = NoCall
    /\ result' = ResNone
    /\ pre' = config
    /\ UNCHANGED <<impl, config, caches>>

Next == Factory \/ Set \/ Get \/ Detect \/ AssignScore \/ IsValidModel \/ Continue

Spec == Init /\ [][Next]_vars

(***************************************************************************)
(* sanitizeText as a function of its argument: the argument is drawn in    *)
(* the initial state and Sanitize applies the function to it               *)
(***************************************************************************)
InitSanitize ==
    /\ impl \in Files
    /\ config = defaultConfig
    /\ pre = defaultConfig
    /\ caches = NoCaches
    /\ \E sample \in SanTexts : call = [NoCall EXCEPT !.op = "sanitizeText", !.text = sample]
    /\ result = ResNone

Sanitize ==
    /\ call.op = "sanitizeText"
    /\ result.kind = "none"
    /\ LET o == sanitizeText(impl, call.text)
       IN  result' = IF Returned(o) THEN ResStr(o.s) ELSE ResThrow(o.err)
    /\ UNCHANGED <<impl, config, call, pre, caches>>

NextSanitize == Sanitize

SpecSanitize == InitSanitize /\ [][NextSanitize]_vars

(***************************************************************************)
(* train as a function of its three arguments                              *)
(***************************************************************************)
LineSets ==
    {NoLines,
     LinesArray(<<<<"a">>>>),
     LinesArray(<<<<"a", "b">>>>),
     LinesArray(<<<<"a", "b", "a">>, <<"b">>>>),
     LinesString(<<"a", "b", "\n", " ", "b", "a">>),
     LinesString(<<"1", "\n", "a">>)}

InitTrain ==
    /\ impl \in Files
    /\ config = defaultConfig
    /\ pre = defaultConfig
    /\ caches = NoCaches
    /\ \E sample \in Corpora, goodLines \in LineSets, badLines \in LineSets :
          call = [NoCall EXCEPT !.op = "train", !.text = sample, !.good = goodLines,
                                !.bad = badLines]
    /\ result = ResNone

Train ==
    /\ call.op = "train"
    /\ result.kind = "none"
    /\ LET o == train(impl, call.text, call.good, call.bad)
       IN  result' = IF Returned(o) THEN ResVal(o.m) ELSE ResThrow(o.err)
    /\ UNCHANGED <<impl, config, call, pre, caches>>

NextTrain == Train

SpecTrain == InitTrain /\ [][NextTrain]_vars

(***************************************************************************)
(* Scoring calls one after the other, with the Map each call leaves behind *)
(* kept in caches.  The calls are made on detectors that differ in their   *)
(* useCache flag, with a list of entries as overrideMatrix.                *)
(***************************************************************************)
ScoreTexts == {StrVal(s) : s \in SeqsUpTo({"a", "b"}, MaxTextLen)} \cup {OtherVal("array", TRUE)}
ScoreTables ==
    {ArrayVal(m.matrix.e) : m \in {DefaultModel, NegModel}} \cup {ArrayVal(<<Entry(<<"a", "b">>, 0)>>)}

InitScore ==
    /\ impl \in Files
    /\ config = defaultConfig
    /\ pre = defaultConfig
    /\ caches = NoCaches
    /\ call = NoCall
    /\ result = ResNone

Score ==
    /\ Idle
    /\ \E testString \in ScoreTexts, overrideMatrix \in ScoreTables, useCache \in BOOLEAN :
        LET o == scoreWithCache(impl, testString, overrideMatrix.e, useCache, caches.after)
        IN  /\ call' = [NoCall EXCEPT !.op = "score", !.text = testString,
                                      !.val = overrideMatrix]
            /\ config' = [config EXCEPT !.useCache = Bool(useCache)]
            /\ pre' = config'
            /\ result' = IF Returned(o.out) THEN ResNum(o.out.num) ELSE ResThrow(o.out.err)
            /\ caches' = Caches(caches.after, o.modelCache)
            /\ UNCHANGED impl

NextScore == Score \/ Continue

SpecScore == InitScore /\ [][NextScore]_vars

(***************************************************************************)
(* One call seen from its caller: the detector and the objects the caller  *)
(* passes (override model, matrix list, line sets) exist before the call   *)
(* is made, and the step of the call shows what it does to them            *)
(***************************************************************************)
FrameCalls ==
    LET FrameTexts == {StrVal(<<"a", "b">>), StrVal(<<"a">>), OtherVal("array", TRUE)}
        FrameCorpora == {StrVal(<<>>), StrVal(<<"a", "b", "a", "b">>)}
    IN
    {[NoCall EXCEPT !.op = "detect", !.text = t, !.val = m] : t \in FrameTexts, m \in ModelArgs}
    \cup {[NoCall EXCEPT !.op = "assignScore", !.text = t, !.val = m] :
             t \in FrameTexts, m \in MatrixArgs}
    \cup {[NoCall EXCEPT !.op = "isValidModel", !.val = m] : m \in Candidates}
    \cup {[NoCall EXCEPT !.op = "get", !.name = n] : n \in OptionNames}
    \cup {[NoCall EXCEPT !.op = "set", !.name = n, !.val = v] :
             n \in OptionNames, v \in OptionValues}
    \cup {[NoCall EXCEPT !.op = "train", !.text = c, !.good = g, !.bad = b] :
             c \in FrameCorpora, g \in LineSets, b \in LineSets}

InitFrame ==
    /\ impl \in Files
    /\ config \in {defaultConfig, Config(NegModel, Fn("goodThresholdFn"), Bool(FALSE))}
    /\ pre = config
    /\ caches = NoCaches
    /\ call \in FrameCalls
    /\ result = ResNone

\* a variant of CallDetect in which scoring empties the list of the override
CallDetect_drainsOverride ==
    /\ call.op = "detect"
    /\ result.kind = "none"
    /\ LET o == detect(impl, config, call.text, call.val)
       IN  result' = IF Returned(o) THEN ResBool(o.b) ELSE ResThrow(o.err)
    /\ call' = [call EXCEPT !.val.matrix.e = <<>>]
    /\ UNCHANGED <<impl, config, pre, caches>>

CallDetect ==
    /\ call.op = "detect"
    /\ result.kind = "none"
    /\ LET o == detect(impl, config, call.text, call.val)
       IN  result' = IF Returned(o) THEN ResBool(o.b) ELSE ResThrow(o.err)
    /\ UNCHANGED <<impl, config, call, pre, caches>>

CallAssignScore ==
    /\ call.op = "assignScore"
    /\ result.kind = "none"
    /\ LET o == assignScoreApi(impl, config, call.text, call.val)
       IN  result' = IF Returned(o) THEN ResNum(o.num) ELSE ResThrow(o.err)
    /\ UNCHANGED <<impl, config, call, pre, caches>>

CallIsValidModel ==
    /\ call.op = "isValidModel"
    /\ result.kind = "none"
    /\ LET v == isValidModel(call.val)
       IN  result' = IF v = "TypeError" THEN ResThrow("TypeError") ELSE ResBool(v = "true")
    /\ UNCHANGED <<impl, config, call, pre, caches>>

CallGet ==
    /\ call.op = "get"
    /\ result.kind = "none"
    /\ result' = ResVal(get(config, call.name))
    /\ UNCHANGED <<impl, config, call, pre, caches>>

CallSet ==
    /\ call.op = "set"
    /\ result.kind = "none"
    /\ LET o == set(config, call.name, call.val)
       IN  /\ config' = o.cfg
           /\ result' = IF Returned(o) THEN ResSelf ELSE ResThrow(o.err)
    /\ UNCHANGED <<impl, call, pre, caches>>

NextFrame == CallDetect \/ CallAssignScore \/ CallIsValidModel \/ CallGet \/ CallSet \/ Train

SpecFrame == InitFrame /\ [][NextFrame]_vars

(***************************************************************************)
(* Reference definitions used to state the properties                      *)
(***************************************************************************)
\* the sanitized, lowercased form of a string argument
SanLower(text) == toLowerCase(sanitizeBody(text.s))

\* the count a table (a list of entries with distinct keys) gives a pair, 0 when absent
TableCount(e, pair) ==
    LET idx == {i \in 1..Len(e) : e[i].x = pair}
    IN  IF idx = {} THEN 0 ELSE e[CHOOSE i \in idx : TRUE].y.n

RECURSIVE PairSum(_, _, _)
PairSum(s, e, i) ==
    IF i >= Len(s) THEN 0 ELSE TableCount(e, <<s[i], s[i + 1]>>) + PairSum(s, e, i + 1)

\* (sum of the counts of the adjacent pairs of s) / (Len(s) - 1)
MeanPairCount(s, e) == Num(PairSum(s, e, 1), Len(s) - 1)

\* the model a detect call scores against
ModelInUse == IF call.val.b THEN call.val ELSE pre.model

(***************************************************************************)
(* C1: for a text whose sanitized, lowercased form has at least 2          *)
(* characters and a model in use that is valid, detect returns true        *)
(* exactly when the mean pair count is <= thresholdFn(model), so a score   *)
(* equal to the threshold is gibberish.                                    *)
(***************************************************************************)
C1_DetectIsScoreLeqThreshold ==
    (/\ call.op = "detect"
     /\ call.text.t = "string"
     /\ Len(SanLower(call.text)) >= 2
     /\ isValidModel(ModelInUse) = "true")
    => /\ Returned(result)
       /\ result.b = NumLeq(MeanPairCount(SanLower(call.text), ModelInUse.matrix.e),
                            applyThresholdFn(pre.thresholdFn, ModelInUse))

(***************************************************************************)
(* C2: for a text whose sanitized, lowercased form s has length L >= 2,    *)
(* the score is (sum of the table counts of the adjacent pairs of s, 0     *)
(* for a pair not in the table) / (L - 1).                                 *)
(***************************************************************************)
\* the list of entries an assignScore call scores against
TableInUse ==
    IF ~call.val.b THEN pre.model.matrix
    ELSE IF isValidMatrix(AsMatrix(call.val)) = "true" THEN AsMatrix(call.val)
    ELSE call.val.matrix

\* the call passes no table, a valid list, or a valid model
TableAccepted ==
    \/ ~call.val.b
    \/ isValidMatrix(AsMatrix(call.val)) = "true"
    \/ (isValidMatrix(AsMatrix(call.val)) = "false" /\ isValidModel(call.val) = "true")

DistinctKeys(e) == \A i, j \in 1..Len(e) : e[i].x = e[j].x => i = j

C2_ScoreIsMeanPairCount ==
    (/\ call.op = "assignScore"
     /\ call.text.t = "string"
     /\ Len(SanLower(call.text)) >= 2
     /\ TableAccepted
     /\ DistinctKeys(TableInUse.e))
    => /\ Returned(result)
       /\ NumSame(result.num, MeanPairCount(SanLower(call.text), TableInUse.e))

(***************************************************************************)
(* C3: the matrix train returns has exactly one entry per distinct         *)
(* adjacent pair of the sanitized, lowercased corpus; every key has length *)
(* 2 and every count is the (positive) number of positions at which the    *)
(* pair occurs, so the counts sum to L - 1 for L >= 2 and the matrix is    *)
(* empty for L <= 1.                                                       *)
(***************************************************************************)
Occurrences(s, pair) == Cardinality({p \in 1..(Len(s) - 1) : <<s[p], s[p + 1]>> = pair})

RECURSIVE CountSum(_, _)
CountSum(e, i) == IF i > Len(e) THEN 0 ELSE e[i].y.n + CountSum(e, i + 1)

C3_TrainMatrixCountsPairs ==
    (call.op = "train" /\ Returned(result))
    => LET m == result.val.matrix.e
           s == SanLower(call.text)
       IN  /\ DistinctKeys(m)
           /\ \A p \in 1..(Len(s) - 1) : \E i \in 1..Len(m) : m[i].x = <<s[p], s[p + 1]>>
           /\ \A i \in 1..Len(m) :
                 /\ m[i].xt = "string" /\ Len(m[i].x) = 2
                 /\ m[i].yt = "number" /\ m[i].y.d = 1
                 /\ m[i].y.n >= 1
                 /\ m[i].y.n = Occurrences(s, m[i].x)
           /\ (Len(s) >= 2 => CountSum(m, 1) = Len(s) - 1)
           /\ (Len(s) <= 1 => m = <<>>)

\* train has returned a matrix of several entries, one of them counted twice
C3_Witness ==
    /\ call.op = "train" /\ Returned(result)
    /\ Len(result.val.matrix.e) >= 2
    /\ \E i \in 1..Len(result.val.matrix.e) : result.val.matrix.e[i].y.n >= 2

(***************************************************************************)
(* C4: cache transparency: scoring with the cache gives the same outcome   *)
(* (same value, or an error in both cases) as scoring without it.          *)
(***************************************************************************)
C4_CacheTransparent ==
    (/\ call.op = "assignScore"
     /\ TableAccepted)
    => LET other == assignScore(impl, call.text, TableInUse.e, ~useCacheParam(pre.useCache))
       IN  /\ Returned(result) <=> Returned(other)
           /\ Returned(result) => NumSame(result.num, other.num)

(***************************************************************************)
(* C5: sanitize is idempotent: sanitizing the output of sanitize gives     *)
(* that output back.                                                       *)
(***************************************************************************)
C5_SanitizeIdempotent ==
    (call.op = "sanitizeText" /\ Returned(result))
    => LET again == sanitizeText(impl, StrVal(result.s))
       IN  Returned(again) /\ again.s = result.s

(***************************************************************************)
(* C6: zero-pair policy: for an input whose sanitized, lowercased form has *)
(* fewer than 2 characters, detect returns true, whatever the model and    *)
(* the threshold.                                                          *)
(***************************************************************************)
ZeroPairDetect ==
    /\ call.op = "detect"
    /\ call.text.t = "string"
    /\ Len(SanLower(call.text)) < 2
    /\ isValidModel(ModelInUse) = "true"

C6_ZeroPairIsGibberish == ZeroPairDetect => (Returned(result) /\ result.b = TRUE)

(***************************************************************************)
(* C6 as amended: for a string whose sanitized, lowercased form has fewer  *)
(* than 2 characters, detect returns false (the score is NaN and NaN <=    *)
(* threshold is false), whatever the model and the threshold.              *)
(***************************************************************************)
C6_ZeroPairIsNotGibberish == ZeroPairDetect => (Returned(result) /\ result.b = FALSE)

\* detect of a one-character string has returned under a negative threshold
C6_Witness ==
    /\ ZeroPairDetect
    /\ call.text.s = <<"a">>
    /\ Returned(result)
    /\ applyThresholdFn(pre.thresholdFn, ModelInUse).n < 0

(***************************************************************************)
(* C7: detect(text) returns a boolean without raising for every string and *)
(* for false, null and undefined, and raises for an array, a plain object  *)
(* and a function.                                                         *)
(***************************************************************************)
C7_DetectInputValidity ==
    (call.op = "detect" /\ call.val = Undefined)
    => /\ (call.text.t = "string" \/ ~call.text.b) => Returned(result)
       /\ call.text.t \in {"array", "object", "function"} => Threw(result)

(***************************************************************************)
(* C8: for every model override other than null/undefined that does not    *)
(* satisfy isValidModel, detect raises and produces no boolean.            *)
(***************************************************************************)
C8_InvalidOverrideRaises ==
    (/\ call.op = "detect"
     /\ call.val.t \notin {"null", "undefined"}
     /\ isValidModel(call.val) # "true")
    => Threw(result)

(***************************************************************************)
(* C8 as amended: for every truthy model override that does not satisfy    *)
(* isValidModel, detect raises (the validation error, or the validator's   *)
(* own TypeError) and produces no boolean; a falsy override (null,         *)
(* undefined, false, 0, '') is taken as no override and the call behaves   *)
(* as detect(text) on the configured model.                                *)
(***************************************************************************)
C8_TruthyInvalidOverrideRaises ==
    (call.op = "detect")
    => /\ (call.val.b /\ isValidModel(call.val) # "true")
            => /\ Threw(result)
               /\ result.err \in {"Malformed learning model provided", "TypeError"}
       /\ ~call.val.b
            => LET o == testGibberish(impl, call.text, pre.model, pre.thresholdFn,
                                      useCacheParam(pre.useCache))
               IN  result = IF Returned(o) THEN ResBool(o.b) ELSE ResThrow(o.err)

\* detect has raised on the override {cowsGo: "moo"}
C8_Witness ==
    /\ call.op = "detect"
    /\ call.val = CowsGo
    /\ call.text.s = <<"a", "b">>
    /\ Threw(result)

(***************************************************************************)
(* C9: the configuration of a detector is always valid (model passes       *)
(* isValidModel, thresholdFn is a function, useCache is a boolean): the    *)
(* factory returns a detector only for a valid merged configuration, and a *)
(* set or a construction that would make an option invalid raises.         *)
(***************************************************************************)
ConfigValid(cfg) ==
    /\ isValidModel(cfg.model) = "true"
    /\ cfg.thresholdFn.t = "function"
    /\ cfg.useCache.t = "boolean"

\* the configuration the call asks for
Requested ==
    IF call.op = "set" THEN [pre EXCEPT ![call.name] = call.val]
    ELSE [name \in OptionNames |->
            IF call.arg.b /\ name \in call.arg.has THEN call.arg[name] ELSE defaultConfig[name]]

C9_ConfigAlwaysValid ==
    /\ ConfigValid(config)
    /\ (call.op \in {"set", "factory"} /\ ~ConfigValid(Requested))
         => (Threw(result) /\ config = pre)
    /\ (call.op = "factory" /\ Returned(result)) => config = Requested

\* a set has raised on a detector whose configuration had been changed before
C9_Witness ==
    /\ call.op = "set"
    /\ Threw(result)
    /\ pre # defaultConfig
    /\ ConfigValid(config)

(***************************************************************************)
(* C10: a set(name, value) that keeps the configuration valid returns the  *)
(* detector itself, get(name) then returns value, and get of the other two *)
(* options returns what it returned before the set.                        *)
(***************************************************************************)
C10_SetCarriesThrough ==
    (call.op = "set" /\ ConfigValid(Requested))
    => /\ Returned(result)
       /\ result.self
       /\ get(config, call.name) = call.val
       /\ \A other \in OptionNames \ {call.name} : get(config, other) = get(pre, other)

\* a set has returned and changed the option
C10_Witness ==
    /\ call.op = "set"
    /\ Returned(result)
    /\ call.val # get(pre, call.name)
    /\ get(config, call.name) = call.val

\* a line set as train accepts it: a non-empty list of strings, or one
\* (newline-delimited) string
NonEmptyLines(lines) == lines.t = "string" \/ Len(lines.e) > 0

(***************************************************************************)
(* C11: for every string corpus and every good and bad line set given as a *)
(* non-empty list of strings or as a newline-delimited string, train       *)
(* returns a model, and isValidModel returns true for that model.          *)
(***************************************************************************)
C11_TrainReturnsValidModel ==
    (/\ call.op = "train"
     /\ result.kind # "none"
     /\ call.text.t = "string"
     /\ NonEmptyLines(call.good)
     /\ NonEmptyLines(call.bad))
    => /\ Returned(result)
       /\ isValidModel(result.val) = "true"

(***************************************************************************)
(* C12: train given an empty good or bad line set fails with an error; it  *)
(* never returns a model whose baseline is a {min, max, avg} record        *)
(* computed from zero scores.                                              *)
(***************************************************************************)
C12_EmptyLineSetRaises ==
    (/\ call.op = "train"
     /\ result.kind # "none"
     /\ (~NonEmptyLines(call.good) \/ ~NonEmptyLines(call.bad)))
    => Threw(result)

\* the three fields of a {min, max, avg} record are finite numbers
FiniteStats(st) ==
    /\ st.mint = "number" /\ IsFinite(st.min)
    /\ st.maxt = "number" /\ IsFinite(st.max)
    /\ st.avgt = "number" /\ IsFinite(st.avg)

(***************************************************************************)
(* C13: in every model train returns for non-empty good and bad line sets, *)
(* the six baseline fields are finite numbers (never NaN, never infinite), *)
(* also when a line sanitizes to fewer than 2 characters.                  *)
(***************************************************************************)
C13_BaselinesFinite ==
    (/\ call.op = "train"
     /\ Returned(result)
     /\ NonEmptyLines(call.good)
     /\ NonEmptyLines(call.bad))
    => /\ FiniteStats(result.val.baseline.good)
       /\ FiniteStats(result.val.baseline.bad)

\* a count that is a positive integer
PositiveInteger(y) == y.d > 0 /\ y.n > 0 /\ y.n % y.d = 0

\* {min, max, avg} is an object with three fields of type number
NumericStats(st) ==
    st.t = "object" /\ st.mint = "number" /\ st.maxt = "number" /\ st.avgt = "number"

\* the structure of a model, with cnt(m) the condition on the count of entry m
ModelShape(v, cnt(_)) ==
    /\ v.t = "object"
    /\ v.matrix.t = "array"
    /\ \A i \in 1..Len(v.matrix.e) :
          LET m == v.matrix.e[i]
          IN  m.t = "object" /\ m.xt = "string" /\ Len(m.x) = 2 /\ cnt(m)
    /\ v.baseline.t = "object"
    /\ NumericStats(v.baseline.good)
    /\ NumericStats(v.baseline.bad)

PositiveIntegerCount(m) == m.yt = "number" /\ PositiveInteger(m.y)
NumberCount(m) == m.yt = "number"

(***************************************************************************)
(* C14: validator soundness: isValidModel returns true only for a          *)
(* candidate whose matrix is a list of entries with a string key of length *)
(* 2 and a positive integer count and whose baseline.good and baseline.bad *)
(* have numeric min, max and avg; a zero, negative, fractional or NaN      *)
(* count is rejected.                                                      *)
(***************************************************************************)
C14_ValidatorSound ==
    (call.op = "isValidModel" /\ Returned(result) /\ result.b)
    => ModelShape(call.val, PositiveIntegerCount)

(***************************************************************************)
(* C14 as amended: isValidModel returns true exactly for a candidate that  *)
(* is a non-array object whose matrix is a list of non-array objects with  *)
(* a string key of length 2 and a count of type number, and whose baseline *)
(* is an object with good and bad objects that each have min, max and avg  *)
(* of type number; the value of the count is not examined, so a zero,      *)
(* negative, fractional or NaN count is accepted.                          *)
(***************************************************************************)
C14_ValidatorChecksStructure ==
    (call.op = "isValidModel" /\ Returned(result))
    => (result.b <=> ModelShape(call.val, NumberCount))

\* isValidModel has returned true for a model with a count that is not a
\* positive integer
C14_Witness ==
    /\ call.op = "isValidModel"
    /\ Returned(result) /\ result.b
    /\ \E i \in 1..Len(call.val.matrix.e) : ~PositiveInteger(call.val.matrix.e[i].y)

\* the adjacent pairs of a sequence of characters
PairsOf(s) == {<<s[p], s[p + 1]>> : p \in 1..(Len(s) - 1)}

(***************************************************************************)
(* C15: the lookup cache carries no state across calls: whatever scoring   *)
(* calls came before, with whatever texts, tables and useCache flags, a    *)
(* scoring call has the outcome the same call has when it is the first of  *)
(* a fresh process, and the score it returns is the mean pair count of its *)
(* own table, never a weight resolved against the table of an earlier      *)
(* call.                                                                   *)
(***************************************************************************)
C15_CacheCarriesNoState ==
    (call.op = "score")
    => LET fresh == assignScore(impl, call.text, call.val.e, useCacheParam(config.useCache))
       IN  /\ result = IF Returned(fresh) THEN ResNum(fresh.num) ELSE ResThrow(fresh.err)
           /\ (Returned(result) /\ Len(SanLower(call.text)) >= 2)
                => NumSame(result.num, MeanPairCount(SanLower(call.text), call.val.e))

\* a call with the cache on has scored a pair for which the call before it
\* had cached the weight of another table
C15_Witness ==
    /\ call.op = "score"
    /\ Returned(result)
    /\ impl = "part_001"
    /\ config.useCache.b
    /\ \E pair \in DOMAIN caches.before \cap PairsOf(SanLower(call.text)) :
          ~NumSame(caches.before[pair], Num(TableCount(call.val.e, pair), 1))

\* texts on which the behaviour of two configurations is compared
ProbeTexts == {StrVal(<<"a", "b">>), StrVal(<<"b", "a", "b">>), StrVal(<<"a">>)}

(***************************************************************************)
(* C16: a rejected set is atomic: when set(name, value) raises, get        *)
(* returns for every option the value it returned before the call, and    *)
(* detect and assignScore give what they gave before the call.             *)
(***************************************************************************)
C16_RejectedSetIsAtomic ==
    (call.op = "set" /\ Threw(result))
    => /\ \A name \in OptionNames : get(config, name) = get(pre, name)
       /\ \A t \in ProbeTexts :
             /\ detect(impl, config, t, Undefined) = detect(impl, pre, t, Undefined)
             /\ assignScoreApi(impl, config, t, Undefined) = assignScoreApi(impl, pre, t, Undefined)

\* a set of an invalid model has raised on a detector configured with a
\* model of its own and the cache off
C16_Witness ==
    /\ call.op = "set"
    /\ call.name = "model"
    /\ call.val = CowsGo
    /\ Threw(result)
    /\ config.model = NegModel
    /\ config.useCache = Bool(FALSE)

(***************************************************************************)
(* C18: the validators are total: isValidModel returns a boolean for every *)
(* candidate, also one whose matrix holds a null, undefined or primitive   *)
(* entry, and never raises; so detect given a malformed override and       *)
(* set('model', ...) given a malformed model fail with the validation      *)
(* error and not with another runtime error.                               *)
(***************************************************************************)
C18_ValidatorsTotal ==
    /\ call.op = "isValidModel" => Returned(result)
    /\ (call.op = "detect" /\ call.val.b /\ ~ModelShape(call.val, NumberCount))
         => (Threw(result) /\ result.err = "Malformed learning model provided")
    /\ (call.op = "set" /\ call.name = "model" /\ ~ModelShape(call.val, NumberCount))
         => (Threw(result) /\ result.err = "model provided is not a valid structure.")

(***************************************************************************)
(* C17: no call mutates a Model: across a detect, assignScore,             *)
(* isValidModel, get, set or train call the override model or matrix list  *)
(* passed in and the line sets passed in are what they were before the     *)
(* call, and so is the configured model; set('model', m) that returns      *)
(* installs m as it was passed, and get('model') returns the configured    *)
(* model.                                                                  *)
(***************************************************************************)
C17_NoCallMutatesModel ==
    [][/\ call'.val = call.val
       /\ call'.good = call.good
       /\ call'.bad = call.bad
       /\ config'.model = IF call.op = "set" /\ call.name = "model" /\ Returned(result')
                          THEN call.val ELSE config.model
       /\ (call.op = "get" /\ call.name = "model") => result'.val = config.model]_vars

\* detect has returned for a valid override on a detector with another model
C17_Witness ==
    /\ call.op = "detect"
    /\ Returned(result)
    /\ call.val = NegModel
    /\ config.model = DefaultModel

====
